---- MODULE Spec2Model ----
(***************************************************************************)
(* A model of the roster aggregate (src/src/squad.py, src/src/player.py),  *)
(* of the exact optimisers (src/src/optimisers.py) and of the heuristic    *)
(* squad optimisers (src/src/squad_optimisers.py).                         *)
(*                                                                         *)
(* Player objects live in a fixed heap: an object is named by its index in *)
(* Heap, and two indices are two different Python objects even when the    *)
(* records they hold are equal.  Index 0 names an object that is not a     *)
(* Player (None, a string, ...).                                           *)
(***************************************************************************)
EXTENDS Integers, Sequences, FiniteSets, TLC

\* A Squad object and the outcome of the last call made on it or to build it.
VARIABLES constructed, squad, team, captain, vice_captain, outcome, nops

\* A MIPSquad instance (its squad list), the pool it is run on, the exception
\* class of its last optimise call and the number of calls made.
VARIABLES df, mip_squad, mip_exc, mip_calls

squadvars == <<constructed, squad, team, captain, vice_captain, outcome, nops>>

mipvars == <<df, mip_squad, mip_exc, mip_calls>>

\* A MIPTeam instance (its team list), the squad table it is run on, the
\* exception class of its last optimise call and the number of calls made.
VARIABLES squad_df, mip_team, team_exc, team_calls

teamvars == <<squad_df, mip_team, team_exc, team_calls>>

\* A Random instance inside optimise: the pool, self.squad, self.budget, the
\* position in the method, and the draws of df.sample(): the seed of the run
\* and the number of draws made so far.
VARIABLES rnd_df, rnd_squad, rnd_budget, rnd_pc, rnd_seed, rnd_k

rndvars == <<rnd_df, rnd_squad, rnd_budget, rnd_pc, rnd_seed, rnd_k>>

\* The heuristic optimisers Efficient, Efficientv2 and Average: the pool, the
\* class in use, its instances in order of construction, the dict object that
\* is the default value of the parameter budget_breakdown of the class, and
\* the calls made so far with their outcomes.
VARIABLES opt_df, opt_cls, opt_insts, budget_breakdown, opt_log

heurvars == <<opt_df, opt_cls, opt_insts, budget_breakdown, opt_log>>

\* One optimise call of Efficientv2 or Average on a new instance, followed
\* through its loops: the pool, the class, the position in the method, the
\* attributes squad, team, budget and budget_breakdown of the instance with
\* the exception raised, the rows the loop at hand runs over and the number
\* of the row it stands at.
VARIABLES pass_df, pass_cls, pass_pc, pass_st, pass_rows, pass_k

passvars == <<pass_df, pass_cls, pass_pc, pass_st, pass_rows, pass_k>>

\* The state of the optimisers other than MIPSquad.
optvars == <<teamvars, rndvars, heurvars, passvars>>

vars == <<squadvars, mipvars, optvars>>

fields == <<squad, team, captain, vice_captain>>

\* Number of assignments made to a constructed Squad.
MaxOps == 3

\* Number of optimise calls made on one MIPSquad instance.
MaxCalls == 2

\* Number of instances of a heuristic optimiser and of optimise calls made
\* on them.
MaxInstances == 2

MaxRuns == 2

\* Amounts of budget_breakdown are kept as multiples of 1 / Unit: a run
\* divides an amount by 3 at most three times.
Unit == 3 ^ (3 * MaxRuns)

-----------------------------------------------------------------------------
\* player.py: Position enum, modelled by the enum values.
Position == ("GK" :> 1) @@ ("DEF" :> 2) @@ ("MID" :> 3) @@ ("FWD" :> 4)

PosGK == Position["GK"]

PosDEF == Position["DEF"]

PosMID == Position["MID"]

PosFWD == Position["FWD"]

\* `for position in Position`
Positions == {Position[n] : n \in DOMAIN Position}

\* player.py: Player.__init__ (name stands for f"{first_name} {last_name}").
Player(name, position, cost, club) ==
    [name |-> name, position |-> position, cost |-> cost, team |-> club]

\* The Player objects the callers hold.  1..15 form a roster of cost exactly
\* 1000 with three players of each of the clubs 1..5; 16..19 are further
\* players; 20 is a second object for the player held by 3; 21 is a defender
\* who has the same name as keeper 1.
Heap ==
    << Player("P01", PosGK, 50, 1),  Player("P02", PosGK, 50, 2),
       Player("P03", PosDEF, 60, 3), Player("P04", PosDEF, 60, 4),
       Player("P05", PosDEF, 60, 5), Player("P06", PosDEF, 60, 1),
       Player("P07", PosDEF, 60, 2), Player("P08", PosMID, 80, 3),
       Player("P09", PosMID, 80, 4), Player("P10", PosMID, 80, 5),
       Player("P11", PosMID, 80, 1), Player("P12", PosMID, 80, 2),
       Player("P13", PosFWD, 70, 3), Player("P14", PosFWD, 65, 4),
       Player("P15", PosFWD, 65, 5),
       Player("P16", PosGK, 51, 6),  Player("P17", PosDEF, 60, 1),
       Player("P18", PosMID, 70, 6), Player("P19", PosFWD, 90, 2),
       Player("P03", PosDEF, 60, 3), Player("P01", PosDEF, 60, 3) >>

Objects == 0 .. Len(Heap)

\* isinstance(o, Player)
IsPlayer(o) == o \in DOMAIN Heap

\* Player defines no __eq__: == on two Players is object identity.
PlayerEq(a, b) == a = b

\* `o in lst` for a Python list of Players.
InList(o, lst) == \E i \in DOMAIN lst : PlayerEq(lst[i], o)

RECURSIVE SumCost(_)
\* sum([player.cost for player in lst])
SumCost(lst) ==
    IF lst = <<>> THEN 0 ELSE Heap[Head(lst)].cost + SumCost(Tail(lst))

\* Counter(...)[key] over an attribute of the players of lst.
CountPosition(lst, p) == Cardinality({i \in DOMAIN lst : Heap[lst[i]].position = p})

CountClub(lst, c) == Cardinality({i \in DOMAIN lst : Heap[lst[i]].team = c})

RECURSIVE Filter(_, _)
\* [player for player in lst if player.position == p]
Filter(lst, p) ==
    IF lst = <<>> THEN <<>>
    ELSE IF Heap[Head(lst)].position = p THEN <<Head(lst)>> \o Filter(Tail(lst), p)
    ELSE Filter(Tail(lst), p)

\* lst[:n]
Take(lst, n) == SubSeq(lst, 1, IF Len(lst) < n THEN Len(lst) ELSE n)

-----------------------------------------------------------------------------
\* squad.py: the four checks of the squad setter.
check_squad_positions(lst) ==
    /\ CountPosition(lst, PosGK) = 2
    /\ CountPosition(lst, PosDEF) = 5
    /\ CountPosition(lst, PosMID) = 5
    /\ CountPosition(lst, PosFWD) = 3

check_team_positions(lst) ==
    /\ CountPosition(lst, PosGK) = 1
    /\ CountPosition(lst, PosDEF) >= 3
    /\ CountPosition(lst, PosFWD) >= 1

\* check_squad_cost with the cap off by one.
check_squad_cost_off_by_one(lst) == SumCost(lst) <= 1001

check_squad_cost(lst) == SumCost(lst) <= 1000

\* check_squad_max_3_from_same_team with a cap of four.
check_squad_max_4_from_same_team(lst) ==
    \A i \in DOMAIN lst : CountClub(lst, Heap[lst[i]].team) <= 4

check_squad_max_3_from_same_team(lst) ==
    \A i \in DOMAIN lst : CountClub(lst, Heap[lst[i]].team) <= 3

\* An argument of a setter: a Python value that is a list of objects
\* (list = TRUE) or something else (list = FALSE, items = the object).
ListArg(items) == [list |-> TRUE, items |-> items]

ObjArg(o) == [list |-> FALSE, items |-> <<o>>]

NoArg == [list |-> FALSE, items |-> <<>>]

Accepted == ""

\* The squad setter with the cost check made before the category check.
SquadSetterCostFirst(arg) ==
    IF ~arg.list \/ \E i \in DOMAIN arg.items : ~IsPlayer(arg.items[i])
    THEN "Squad must be a list of players"
    ELSE IF Len(arg.items) # 15 THEN "Squad must contain 15 players"
    ELSE IF ~check_squad_cost(arg.items) THEN "Squad is too expensive"
    ELSE IF ~check_squad_positions(arg.items) THEN "Squad is not valid"
    ELSE IF ~check_squad_max_3_from_same_team(arg.items)
    THEN "Squad has too many players from the same team"
    ELSE Accepted

\* squad.py: the squad setter; the message of the SquadError it raises, or
\* Accepted.
SquadSetter(arg) ==
    IF ~arg.list \/ \E i \in DOMAIN arg.items : ~IsPlayer(arg.items[i])
    THEN "Squad must be a list of players"
    ELSE IF Len(arg.items) # 15 THEN "Squad must contain 15 players"
    ELSE IF ~check_squad_positions(arg.items) THEN "Squad is not valid"
    ELSE IF ~check_squad_cost(arg.items) THEN "Squad is too expensive"
    ELSE IF ~check_squad_max_3_from_same_team(arg.items)
    THEN "Squad has too many players from the same team"
    ELSE Accepted

\* squad.py: the team setter, run on an object whose squad is sq.
TeamSetter(arg, sq) ==
    IF ~arg.list \/ \E i \in DOMAIN arg.items : ~IsPlayer(arg.items[i])
    THEN "Team must be a list of players"
    ELSE IF ~(\A i \in DOMAIN arg.items : InList(arg.items[i], sq))
    THEN "Team must be a subset of the squad"
    ELSE IF Len(arg.items) # 11 THEN "Team must contain 11 players"
    ELSE IF ~check_team_positions(arg.items) THEN "Team is not valid"
    ELSE Accepted

\* squad.py: the captain setter, run on an object whose team is tm.
CaptainSetter(o, tm) ==
    IF ~IsPlayer(o) THEN "Captain must be a player"
    ELSE IF ~InList(o, tm) THEN "Captain must be in the team"
    ELSE Accepted

\* squad.py: the vice_captain setter, run on an object whose team is tm and
\* whose captain is cap.
ViceCaptainSetter(o, tm, cap) ==
    IF ~IsPlayer(o) THEN "Vice captain must be a player"
    ELSE IF ~InList(o, tm) THEN "Vice captain must be in the team"
    ELSE IF Heap[o].name = Heap[cap].name
    THEN "Vice captain must be different to the captain"
    ELSE Accepted

-----------------------------------------------------------------------------
\* What the last call did: the operation, the class of the exception it
\* raised ("none" when it returned), the exception's message and the
\* argument it was given (for __init__ and the factories: the squad list).
Outcome(op, exc, msg, arg) == [op |-> op, exc |-> exc, msg |-> msg, arg |-> arg]

Returned(op, arg) == Outcome(op, "none", "", arg)

Raised(op, msg, arg) == Outcome(op, "SquadError", msg, arg)

\* squad.py: Squad.__init__ runs the four setters in turn; the message of
\* the first SquadError, or Accepted.
InitSetters(sq, tm, cap, vc) ==
    IF SquadSetter(sq) # Accepted THEN SquadSetter(sq)
    ELSE IF TeamSetter(tm, sq.items) # Accepted THEN TeamSetter(tm, sq.items)
    ELSE IF CaptainSetter(cap, tm.items) # Accepted THEN CaptainSetter(cap, tm.items)
    ELSE ViceCaptainSetter(vc, tm.items, cap)

\* The constructor call cls(sq, tm, cap, vc) made by operation op: the
\* object exists afterwards only when no setter raised.
New(op, sq, tm, cap, vc) ==
    IF InitSetters(sq, tm, cap, vc) = Accepted
    THEN /\ constructed' = TRUE
         /\ squad' = sq.items
         /\ team' = tm.items
         /\ captain' = cap
         /\ vice_captain' = vc
         /\ outcome' = Returned(op, sq)
    ELSE /\ outcome' = Raised(op, InitSetters(sq, tm, cap, vc), sq)
         /\ UNCHANGED <<constructed, squad, team, captain, vice_captain>>

\* squad.py: the default 4-4-2 of the factories, for a list with a keeper.
DefaultTeam(lst) ==
    <<Head(Filter(lst, PosGK))>> \o Take(Filter(lst, PosDEF), 4)
        \o Take(Filter(lst, PosMID), 4) \o Take(Filter(lst, PosFWD), 2)

\* squad.py: captain = team[0], vice_captain = team[1].
DefaultCaptain(tm) == tm[1]

\* vice_captain = team[2]
ThirdAsViceCaptain(tm) == tm[3]

DefaultViceCaptain(tm) == tm[2]

\* squad.py: Squad.from_player_list; lst is a Python list of objects.
Factory(op, lst) ==
    IF \E i \in DOMAIN lst : ~IsPlayer(lst[i])
    THEN /\ outcome' = Outcome(op, "AttributeError", "", ListArg(lst))
         /\ UNCHANGED <<constructed, squad, team, captain, vice_captain>>
    ELSE IF Filter(lst, PosGK) = <<>> \/ Len(DefaultTeam(lst)) < 2
    THEN /\ outcome' = Outcome(op, "IndexError", "", ListArg(lst))
         /\ UNCHANGED <<constructed, squad, team, captain, vice_captain>>
    ELSE New(op, ListArg(lst), ListArg(DefaultTeam(lst)),
             DefaultCaptain(DefaultTeam(lst)), DefaultViceCaptain(DefaultTeam(lst)))

\* The squad setter storing a list before it checks it.
StoredSquadBeforeChecks(arg, old) == IF arg.list THEN arg.items ELSE old

\* What each setter leaves in its field.
StoredSquad(arg, old) == IF SquadSetter(arg) = Accepted THEN arg.items ELSE old

StoredTeam(arg, sq, old) == IF TeamSetter(arg, sq) = Accepted THEN arg.items ELSE old

StoredCaptain(o, tm, old) == IF CaptainSetter(o, tm) = Accepted THEN o ELSE old

StoredViceCaptain(o, tm, cap, old) ==
    IF ViceCaptainSetter(o, tm, cap) = Accepted THEN o ELSE old

SetterOutcome(op, msg, arg) ==
    IF msg = Accepted THEN Returned(op, arg) ELSE Raised(op, msg, arg)

-----------------------------------------------------------------------------
\* The arguments the callers pass.
Base == [i \in 1 .. 15 |-> i]

Subst(lst, i, o) == [lst EXCEPT ![i] = o]

Reverse(lst) == [i \in DOMAIN lst |-> lst[Len(lst) + 1 - i]]

\* Objects outside Base, the object that is no Player among them.
Extras == Objects \ {Base[i] : i \in DOMAIN Base}

\* Lists given to the constructor and the factories: Base in both orders,
\* Base with one entry replaced, lists of 13, 14 and 16 entries, lists
\* without a keeper or with nothing but a keeper.
SquadLists ==
    {Base, Reverse(Base)}
        \cup {Subst(Base, i, o) : i \in DOMAIN Base, o \in Extras}
        \cup {Tail(Base), Tail(Subst(Base, 2, 17)), SubSeq(Base, 1, 14)}
        \cup {Append(Base, 16), Append(Base, 18), SubSeq(Base, 3, 15)}
        \cup {<<>>, <<1>>, Subst(Subst(Base, 1, 21), 2, 17)}

SquadArgs == {ListArg(l) : l \in SquadLists} \cup {ObjArg(0)}

\* Lists assigned to the squad of a constructed Squad.
AssignedLists ==
    {Base, Subst(Base, 8, 18), Subst(Base, 6, 17), Subst(Base, 3, 17),
     Subst(Base, 1, 16), Subst(Base, 3, 19), Subst(Base, 13, 19),
     Subst(Base, 1, 0), SubSeq(Base, 1, 14), Append(Base, 18)}

AssignedArgs == {ListArg(l) : l \in AssignedLists} \cup {ObjArg(0)}

BaseTeam == DefaultTeam(Base)

TeamLists ==
    {BaseTeam, DefaultTeam(Subst(Base, 8, 18)), DefaultTeam(Subst(Base, 6, 17)),
     Subst(BaseTeam, 1, 2), Subst(BaseTeam, 2, 20), Subst(BaseTeam, 2, 2),
     Subst(BaseTeam, 2, 4), SubSeq(BaseTeam, 1, 10)}

TeamArgs == {ListArg(l) : l \in TeamLists} \cup {ObjArg(0)}

CaptainArgs == {0, 1, 3, 4, 15, 20}

-----------------------------------------------------------------------------
\* No Squad has been built.
SquadIdle ==
    /\ constructed = FALSE
    /\ squad = <<>>
    /\ team = <<>>
    /\ captain = 0
    /\ vice_captain = 0
    /\ outcome = Returned("none", NoArg)
    /\ nops = 0

\* No MIPSquad has been built.
MIPIdle ==
    /\ df = <<>>
    /\ mip_squad = <<>>
    /\ mip_exc = "none"
    /\ mip_calls = 0

\* No MIPTeam has been built.
TeamIdle ==
    /\ squad_df = <<>>
    /\ mip_team = <<>>
    /\ team_exc = "none"
    /\ team_calls = 0

\* No Random has been built.
RandomIdle ==
    /\ rnd_df = <<>>
    /\ rnd_squad = <<>>
    /\ rnd_budget = 1000
    /\ rnd_pc = "idle"
    /\ rnd_seed = [start |-> 0, stride |-> 0]
    /\ rnd_k = 0

\* The default dict of budget_breakdown as the def statement creates it.
DefaultBreakdown == [p \in Positions |-> 250 * Unit]

\* No heuristic optimiser has been built.
HeurIdle ==
    /\ opt_df = <<>>
    /\ opt_cls = "none"
    /\ opt_insts = <<>>
    /\ budget_breakdown = DefaultBreakdown
    /\ opt_log = <<>>

\* No optimise call is followed through its loops.
PassIdle ==
    /\ pass_df = <<>>
    /\ pass_cls = "none"
    /\ pass_pc = "idle"
    /\ pass_st = [squad |-> <<>>, team |-> <<>>, budget |-> 1000,
                  breakdown |-> DefaultBreakdown, exc |-> "none"]
    /\ pass_rows = <<>>
    /\ pass_k = 0

OptIdle == TeamIdle /\ RandomIdle /\ HeurIdle /\ PassIdle

Init ==
    /\ constructed = FALSE
    /\ squad = <<>>
    /\ team = <<>>
    /\ captain = 0
    /\ vice_captain = 0
    /\ outcome = Returned("none", NoArg)
    /\ nops = 0
    /\ df = <<>>
    /\ mip_squad = <<>>
    /\ mip_exc = "none"
    /\ mip_calls = 0
    /\ OptIdle

Fresh == ~constructed /\ outcome.op = "none"

\* Squad(sq, tm, cap, vc)
Construct(sq, tm, cap, vc) ==
    /\ Fresh
    /\ New("__init__", sq, tm, cap, vc)
    /\ UNCHANGED nops
    /\ UNCHANGED <<mipvars, optvars>>

\* Squad.from_player_list(lst)
FromPlayerList(lst) ==
    /\ Fresh
    /\ Factory("from_player_list", lst)
    /\ UNCHANGED nops
    /\ UNCHANGED <<mipvars, optvars>>

\* Squad.from_pandas_df(df): one Player is made of each row (the object lst[i]
\* stands for the Player made of row i), then as from_player_list.
FromPandasDf(lst) ==
    /\ Fresh
    /\ \A i \in DOMAIN lst : IsPlayer(lst[i])
    /\ Factory("from_pandas_df", lst)
    /\ UNCHANGED nops
    /\ UNCHANGED <<mipvars, optvars>>

CanAssign == constructed /\ nops < MaxOps

\* s.squad = arg
SetSquad(arg) ==
    /\ CanAssign
    /\ squad' = StoredSquad(arg, squad)
    /\ outcome' = SetterOutcome("squad", SquadSetter(arg), arg)
    /\ nops' = nops + 1
    /\ UNCHANGED <<constructed, team, captain, vice_captain>>
    /\ UNCHANGED <<mipvars, optvars>>

\* s.team = arg
SetTeam(arg) ==
    /\ CanAssign
    /\ team' = StoredTeam(arg, squad, team)
    /\ outcome' = SetterOutcome("team", TeamSetter(arg, squad), arg)
    /\ nops' = nops + 1
    /\ UNCHANGED <<constructed, squad, captain, vice_captain>>
    /\ UNCHANGED <<mipvars, optvars>>

\* s.captain = o
SetCaptain(o) ==
    /\ CanAssign
    /\ captain' = StoredCaptain(o, team, captain)
    /\ outcome' = SetterOutcome("captain", CaptainSetter(o, team), ObjArg(o))
    /\ nops' = nops + 1
    /\ UNCHANGED <<constructed, squad, team, vice_captain>>
    /\ UNCHANGED <<mipvars, optvars>>

\* s.vice_captain = o
SetViceCaptain(o) ==
    /\ CanAssign
    /\ vice_captain' = StoredViceCaptain(o, team, captain, vice_captain)
    /\ outcome' = SetterOutcome("vice_captain",
                                ViceCaptainSetter(o, team, captain), ObjArg(o))
    /\ nops' = nops + 1
    /\ UNCHANGED <<constructed, squad, team, captain>>
    /\ UNCHANGED <<mipvars, optvars>>

\* A Squad is constructed and then assigned to.
Next ==
    \/ \E sq \in AssignedArgs, tm \in TeamArgs, cap \in CaptainArgs, vc \in CaptainArgs :
           Construct(sq, tm, cap, vc)
    \/ \E lst \in AssignedLists : FromPlayerList(lst)
    \/ \E lst \in AssignedLists : FromPandasDf(lst)
    \/ \E arg \in AssignedArgs : SetSquad(arg)
    \/ \E arg \in TeamArgs : SetTeam(arg)
    \/ \E o \in CaptainArgs : SetCaptain(o)
    \/ \E o \in CaptainArgs : SetViceCaptain(o)

Spec == Init /\ [][Next]_vars

\* Construction alone, over the wider set of lists.
NextConstruct ==
    \/ \E sq \in SquadArgs, tm \in TeamArgs, cap \in CaptainArgs, vc \in CaptainArgs :
           Construct(sq, tm, cap, vc)
    \/ \E lst \in SquadLists : FromPlayerList(lst)
    \/ \E lst \in SquadLists : FromPandasDf(lst)

SpecConstruct == Init /\ [][NextConstruct]_vars

-----------------------------------------------------------------------------
\* optimisers.py: MIPSquad.  A pool is a sequence of rows; row i of the
\* DataFrame has index i after reset_index.
Row(name, element_type, now_cost, club, predicted_points) ==
    [name |-> name, element_type |-> element_type, now_cost |-> now_cost,
     team |-> club, predicted_points |-> predicted_points]

\* Rows 1..15 fill the quotas exactly and cost 950 + x; the defender, the two
\* midfielders and the forward with the highest forecast belong to club c;
\* rows 16..19 are one more candidate per category with forecast v.
PoolRows(c, x, v) ==
    << Row("R01", 1, x, 1, 20),  Row("R02", 1, 50, 2, 21),
       Row("R03", 2, 60, c, 50), Row("R04", 2, 60, 4, 22),
       Row("R05", 2, 60, 5, 23), Row("R06", 2, 60, 1, 24),
       Row("R07", 2, 60, 2, 25), Row("R08", 3, 80, c, 51),
       Row("R09", 3, 80, c, 52), Row("R10", 3, 80, 5, 26),
       Row("R11", 3, 80, 1, 27), Row("R12", 3, 80, 2, 28),
       Row("R13", 4, 70, c, 53), Row("R14", 4, 65, 4, 29),
       Row("R15", 4, 65, 5, 30),
       Row("R16", 1, 45, 6, v),  Row("R17", 2, 55, 6, v),
       Row("R18", 3, 75, 7, v),  Row("R19", 4, 95, 7, v) >>

\* Club identifiers of the four best candidates: inside and outside 1..20.
StarClubs == {3, 20, 21}

Pools ==
    {SubSeq(PoolRows(c, x, v), 1, n) :
        n \in 15 .. 19, c \in StarClubs, x \in {50, 51}, v \in {5, 60}}

\* player.py: Player.from_pandas_row.
FromPandasRow(row) ==
    Player(row.name, CHOOSE p \in Positions : p = row.element_type,
           row.now_cost, row.team)

\* optimisers.py: self.budget and self.squad_numbers.
squad_numbers == (PosGK :> 2) @@ (PosDEF :> 5) @@ (PosMID :> 5) @@ (PosFWD :> 3)

RECURSIVE SumOver(_, _, _)
\* mip.xsum(y[i] * column[i] for i in indexes), for the assignment that sets
\* y[i] = 1 exactly for i in sel.
SumOver(d, sel, column) ==
    IF sel = {} THEN 0
    ELSE LET i == CHOOSE j \in sel : TRUE
         IN  d[i][column] + SumOver(d, sel \ {i}, column)

\* The sets of rows that hold quota[p] rows of each position p.
WithCounts(d, quota) ==
    LET of(p) == {i \in DOMAIN d : d[i].element_type = p}
        pick(p) == {x \in SUBSET of(p) : Cardinality(x) = quota[p]}
    IN  {g \cup b \cup m \cup f :
            g \in pick(PosGK), b \in pick(PosDEF), m \in pick(PosMID), f \in pick(PosFWD)}

\* The assignments that meet the position constraints.
MeetPositions(d) == WithCounts(d, squad_numbers)

\* The budget constraint.
MeetsBudget(d, sel) == SumOver(d, sel, "now_cost") <= 1000

\* The team constraints: one for each team in range(1, 21).
MeetsTeams(d, sel) ==
    \A t \in 1 .. 20 : Cardinality({i \in sel : d[i].team = t}) <= 3

\* The feasible assignments of the model handed to the solver.
Feasible(d) == {sel \in MeetPositions(d) : MeetsBudget(d, sel) /\ MeetsTeams(d, sel)}

\* m.optimize(): the assignments of maximal objective; the solver returns any.
Optimal(d) ==
    LET feas == Feasible(d)
        obj == [sel \in feas |-> SumOver(d, sel, "predicted_points")]
    IN  {sel \in feas : \A other \in feas : obj[other] <= obj[sel]}

\* The Players appended to self.squad, in index order.
Appended(d, sel) ==
    LET idx == [k \in 1 .. Cardinality(sel) |->
                   CHOOSE i \in sel : Cardinality({j \in sel : j < i}) = k - 1]
    IN  [k \in DOMAIN idx |-> FromPandasRow(d[idx[k]])]

\* A new MIPSquad() and a pool read by the caller.
MIPInit ==
    /\ df \in Pools
    /\ mip_squad = <<>>
    /\ mip_exc = "none"
    /\ mip_calls = 0
    /\ OptIdle
    /\ constructed = FALSE
    /\ squad = <<>>
    /\ team = <<>>
    /\ captain = 0
    /\ vice_captain = 0
    /\ outcome = Returned("none", NoArg)
    /\ nops = 0

\* MIPSquad.optimise(df).  reset_index(inplace=True) adds the old index to df
\* as column "index", then as "level_0", and raises ValueError the third
\* time; with no feasible assignment y[i].x is None and the comparison with
\* 0.99 raises TypeError.
MIPOptimise ==
    /\ mip_calls < MaxCalls
    /\ mip_calls' = mip_calls + 1
    /\ IF mip_calls >= 2
       THEN mip_exc' = "ValueError" /\ UNCHANGED mip_squad
       ELSE IF Feasible(df) = {}
       THEN mip_exc' = "TypeError" /\ UNCHANGED mip_squad
       ELSE \E sel \in Optimal(df) :
                /\ mip_squad' = mip_squad \o Appended(df, sel)
                /\ mip_exc' = "none"
    /\ UNCHANGED df
    /\ UNCHANGED <<squadvars, optvars>>

MIPNext == MIPOptimise

SpecMIP == MIPInit /\ [][MIPNext]_vars

-----------------------------------------------------------------------------
\* optimisers.py: MIPTeam.  Python values as far as == tells them apart: an
\* int read from column element_type and a member of the Position Enum.
IntOf(n) == [type |-> "int", value |-> n]

Member(n) == [type |-> "Position", value |-> n]

\* a == b for two such values: Enum members compare equal to themselves only.
PyEq(a, b) == a.type = b.type /\ a.value = b.value

\* The rows i with positions[i] == member.
RowsEqual(d, member) ==
    {i \in DOMAIN d : PyEq(IntOf(d[i].element_type), member)}

\* The assignments that meet the three position constraints and the
\* constraint on the number of players.
TeamFeasible(d) ==
    {sel \in SUBSET (DOMAIN d) :
        /\ Cardinality(sel \cap RowsEqual(d, Member(PosGK))) = 1
        /\ Cardinality(sel \cap RowsEqual(d, Member(PosDEF))) >= 3
        /\ Cardinality(sel \cap RowsEqual(d, Member(PosFWD))) >= 1
        /\ Cardinality(sel) = 11}

\* m.optimize(): the assignments of maximal objective; the solver returns any.
TeamOptimal(d) ==
    LET feas == TeamFeasible(d)
        obj == [sel \in feas |-> SumOver(d, sel, "predicted_points")]
    IN  {sel \in feas : \A other \in feas : obj[other] <= obj[sel]}

\* The rows sel of d as a table of their own, in index order.
SubTable(d, sel) ==
    LET idx == [k \in 1 .. Cardinality(sel) |->
                   CHOOSE i \in sel : Cardinality({j \in sel : j < i}) = k - 1]
    IN  [k \in DOMAIN idx |-> d[idx[k]]]

\* Squad tables: 15 rows that fill the squad quotas, taken from 17-row pools.
SquadTables ==
    {SubTable(SubSeq(PoolRows(3, x, v), 1, 17), sel) :
        x \in {50, 51}, v \in {5, 60},
        sel \in MeetPositions(SubSeq(PoolRows(3, 50, 5), 1, 17))}

\* A new MIPTeam() and a squad table built by the caller.
TeamInit ==
    /\ squad_df \in SquadTables
    /\ mip_team = <<>>
    /\ team_exc = "none"
    /\ team_calls = 0
    /\ SquadIdle
    /\ MIPIdle
    /\ RandomIdle
    /\ HeurIdle
    /\ PassIdle

\* MIPTeam.optimise(df).  reset_index(inplace=True) behaves as in
\* MIPSquad.optimise; with no feasible assignment y[i].x is None and the
\* comparison with 0.99 raises TypeError.
MIPTeamOptimise ==
    /\ team_calls < MaxCalls
    /\ team_calls' = team_calls + 1
    /\ IF team_calls >= 2
       THEN team_exc' = "ValueError" /\ UNCHANGED mip_team
       ELSE IF TeamFeasible(squad_df) = {}
       THEN team_exc' = "TypeError" /\ UNCHANGED mip_team
       ELSE \E sel \in TeamOptimal(squad_df) :
                /\ mip_team' = mip_team \o Appended(squad_df, sel)
                /\ team_exc' = "none"
    /\ UNCHANGED squad_df
    /\ UNCHANGED <<squadvars, mipvars, rndvars, heurvars, passvars>>

TeamNext == MIPTeamOptimise

SpecTeam == TeamInit /\ [][TeamNext]_vars

-----------------------------------------------------------------------------
\* squad_optimisers.py: BaseOptimiser.  self.squad is a list of Players and
\* self.squad_numbers is the map of MIPSquad.
player_team_squad_rule_max_4(sq, player) ==
    Cardinality({k \in DOMAIN sq : sq[k].team = player.team}) < 4

player_team_squad_rule(sq, player) ==
    Cardinality({k \in DOMAIN sq : sq[k].team = player.team}) < 3

squad_position_rule(sq, player) ==
    LET spaces_available ==
            squad_numbers[player.position]
                - Cardinality({k \in DOMAIN sq : sq[k].position = player.position})
    IN  spaces_available > 0

-----------------------------------------------------------------------------
\* squad_optimisers.py: Random.  df.sample() returns one row of the pool,
\* chosen by numpy's generator.  The draws of a run are an input of the run:
\* draw number k (from 0) returns row ((start + stride * k) mod n) + 1 of the
\* n rows, for a seed <<start, stride>>.
MaxStride == 5

Seeds(d) == [start : 0 .. (Len(d) - 1), stride : 0 .. MaxStride]

Sample(d, seed, k) == ((seed.start + seed.stride * k) % Len(d)) + 1

\* Pools of 12 rows (no Forward), 15 rows (the quotas cost 1000) and 16 and
\* 19 rows.
RandomSizes == {12, 15, 16, 19}

RandomPools == {SubSeq(PoolRows(3, 50, 5), 1, n) : n \in RandomSizes}

\* The condition under which the drawn player is appended.
RandomAccepts(sq, budget, player) ==
    /\ squad_position_rule(sq, player)
    /\ player_team_squad_rule(sq, player)
    /\ budget > player.cost

\* Random(...).optimise(df) has been called and stands at the loop head.
RandomInit ==
    /\ rnd_df \in RandomPools
    /\ rnd_seed \in Seeds(rnd_df)
    /\ rnd_squad = <<>>
    /\ rnd_budget = 1000
    /\ rnd_pc = "loop"
    /\ rnd_k = 0
    /\ SquadIdle
    /\ MIPIdle
    /\ TeamIdle
    /\ HeurIdle
    /\ PassIdle

\* One iteration of the loop with a squad that is not full: draw a player
\* and append it if it fits.
RandomDraw ==
    /\ rnd_pc = "loop"
    /\ Len(rnd_squad) # 15
    /\ LET player == FromPandasRow(rnd_df[Sample(rnd_df, rnd_seed, rnd_k)])
       IN  IF RandomAccepts(rnd_squad, rnd_budget, player)
           THEN /\ rnd_squad' = Append(rnd_squad, player)
                /\ rnd_budget' = rnd_budget - player.cost
           ELSE UNCHANGED <<rnd_squad, rnd_budget>>
    /\ rnd_k' = (rnd_k + 1) % Len(rnd_df)
    /\ UNCHANGED <<rnd_df, rnd_seed, rnd_pc>>
    /\ UNCHANGED <<squadvars, mipvars, teamvars, heurvars, passvars>>

\* The iteration that finds the squad full: break and return self.squad.
RandomReturn ==
    /\ rnd_pc = "loop"
    /\ Len(rnd_squad) = 15
    /\ rnd_pc' = "returned"
    /\ UNCHANGED <<rnd_df, rnd_squad, rnd_budget, rnd_seed, rnd_k>>
    /\ UNCHANGED <<squadvars, mipvars, teamvars, heurvars, passvars>>

RandomNext == RandomDraw \/ RandomReturn

SpecRandom == RandomInit /\ [][RandomNext]_vars

\* The loop is executed as long as it has not returned.
SpecRandomFair == SpecRandom /\ WF_vars(RandomNext)

-----------------------------------------------------------------------------
\* squad_optimisers.py: what Efficient, Efficientv2 and Average share.

\* BaseOptimiser.__init__: the default formation.
formation == (PosGK :> 1) @@ (PosDEF :> 3) @@ (PosMID :> 4) @@ (PosFWD :> 3)

\* The order of "for position in Position" and of the keys of the default
\* budget_breakdown.
PositionOrder == <<PosGK, PosDEF, PosMID, PosFWD>>

\* Player.from_pandas_row(row) makes a new object each time it is called; id
\* names the call (the optimise call, the place in the code, the rows at
\* hand).  Player defines no __eq__, so two objects are == when their ids are.
Site(call, place, row, candidate) ==
    [call |-> call, place |-> place, row |-> row, candidate |-> candidate]

NewPlayer(row, id) == FromPandasRow(row) @@ [id |-> id]

Names(players) == [k \in DOMAIN players |-> players[k].name]

RECURSIVE SumPlayerCost(_)
\* The sum of player.cost over a list of Players.
SumPlayerCost(players) ==
    IF players = <<>> THEN 0 ELSE Head(players).cost + SumPlayerCost(Tail(players))

RECURSIVE SumAmounts(_, _)
\* The sum of the amounts a budget_breakdown holds for the positions in S.
SumAmounts(breakdown, S) ==
    IF S = {} THEN 0
    ELSE LET p == CHOOSE q \in S : TRUE
         IN  breakdown[p] + SumAmounts(breakdown, S \ {p})

\* df[df["element_type"] == position.value]
RowsOf(d, position) == {i \in DOMAIN d : d[i].element_type = position}

\* sort_values: the rows S in sorted order, where Before(i, j) says that row
\* i sorts strictly before row j; rows with equal keys keep the order they
\* have in the DataFrame.
SortValues(S, Before(_, _)) ==
    LET rank(i) == Cardinality({j \in S : Before(j, i) \/ (~Before(i, j) /\ j < i)})
        placed == {<<rank(i) + 1, i>> : i \in S}
    IN  [k \in 1 .. Cardinality(S) |-> (CHOOSE at \in placed : at[1] = k)[2]]

\* F applied to the value of e, which is computed once.
Bind(e, F(_)) == CHOOSE out \in {F(x) : x \in {e}} : TRUE

\* df["value"] = df[points_col] / df[cost_col]; costs are positive, and
\* value(i) > value(j) is compared without dividing.
ValueAbove(d, i, j) ==
    d[i].predicted_points * d[j].now_cost > d[j].predicted_points * d[i].now_cost

\* The outcome of a call as it is logged: the exception class ("none" when
\* the call returns, "hang" when it never returns), the list returned, the
\* value self.budget_breakdown has after the call, and for Efficientv2 the
\* value of self.squad after the initialisation step, for a loop that never
\* ends the number of players the category still needs and the number of
\* rows left that the club rule admits.
Logged(op, inst, exc, ret, breakdown, after_init, need, unblocked) ==
    [op |-> op, inst |-> inst, exc |-> exc, ret |-> ret, breakdown |-> breakdown,
     after_init |-> after_init, need |-> need, unblocked |-> unblocked]

-----------------------------------------------------------------------------
\* squad_optimisers.py: Efficient.

RECURSIVE greedy_add(_, _, _, _, _, _, _)
\* The while loop of greedy_add, entered with the rows left in subset (best
\* value first), pos_squad and pos_budget.  subset.iloc[0] raises IndexError
\* when subset is empty.  When the club rule refuses the first row, nothing
\* is changed and the loop repeats the same iteration: it never ends.
greedy_add(d, sq, subset, pos_squad, pos_budget, num_to_add, call) ==
    IF Len(pos_squad) >= num_to_add
    THEN [exc |-> "none", players |-> pos_squad, budget |-> pos_budget,
          need |-> 0, unblocked |-> 0]
    ELSE IF subset = <<>>
    THEN [exc |-> "IndexError", players |-> pos_squad, budget |-> pos_budget,
          need |-> num_to_add - Len(pos_squad), unblocked |-> 0]
    ELSE LET player == d[Head(subset)]
         IN  IF player_team_squad_rule(sq, player)
             THEN Bind(Append(pos_squad,
                              NewPlayer(player, Site(call, "greedy_add", Head(subset), 0))),
                       LAMBDA appended :
                           greedy_add(d, sq, Tail(subset), appended,
                                      pos_budget - player.now_cost * Unit,
                                      num_to_add, call))
             ELSE [exc |-> "hang", players |-> pos_squad, budget |-> pos_budget,
                   need |-> num_to_add - Len(pos_squad),
                   unblocked |-> Cardinality({k \in DOMAIN subset :
                                     player_team_squad_rule(sq, d[subset[k]])})]

RECURSIVE EfficientFrom(_, _, _, _, _, _)
\* The loop of Efficient.optimise over the keys of budget_breakdown, from key
\* number k on, with self.squad = sq.
EfficientFrom(d, sq, k, wiggle_budget, breakdown, call) ==
    IF k > Len(PositionOrder)
    THEN [exc |-> "none", squad |-> sq, need |-> 0, unblocked |-> 0]
    ELSE LET position == PositionOrder[k]
             subset == SortValues(RowsOf(d, position), LAMBDA i, j : ValueAbove(d, i, j))
         IN  Bind(greedy_add(d, sq, subset, <<>>, breakdown[position] + wiggle_budget,
                             squad_numbers[position], call),
                  LAMBDA added :
                      IF added.exc # "none"
                      THEN [exc |-> added.exc, squad |-> sq, need |-> added.need,
                            unblocked |-> added.unblocked]
                      ELSE Bind(sq \o added.players,
                                LAMBDA extended :
                                    EfficientFrom(d, extended, k + 1, added.budget,
                                                  breakdown, call)))

\* Efficient.optimise(df) on an instance: the instance afterwards and the
\* outcome.
EfficientOptimise(inst, breakdown, d, call) ==
    Bind(EfficientFrom(d, inst.squad, 1, 0, breakdown, call),
         LAMBDA run :
             [inst |-> [inst EXCEPT !.squad = run.squad],
              breakdown |-> breakdown,
              exc |-> run.exc,
              ret |-> IF run.exc = "none" THEN run.squad ELSE <<>>,
              after_init |-> <<>>,
              need |-> run.need,
              unblocked |-> run.unblocked])

-----------------------------------------------------------------------------
\* squad_optimisers.py: Efficientv2.  The state of a run is the record of
\* self.squad, self.team, self.budget, self.budget_breakdown and the
\* exception raised, "none" while the run goes on.

\* The first n entries of a list: .head(n) for n >= 0.
Head_n(rows, n) == SubSeq(rows, 1, IF n < Len(rows) THEN n ELSE Len(rows))

RECURSIVE cheap_rows(_, _)
\* The rows that the loop of _get_cheap_players adds to self.squad, from
\* position number k on: for each position the cheapest rows.
cheap_rows(d, k) ==
    IF k > Len(PositionOrder) THEN <<>>
    ELSE LET position == PositionOrder[k]
             number_to_add == squad_numbers[position] - formation[position]
             subset == Head_n(SortValues(RowsOf(d, position),
                                  LAMBDA i, j : d[i].now_cost < d[j].now_cost),
                              number_to_add)
         IN  subset \o cheap_rows(d, k + 1)

\* Efficientv2._get_cheap_players(df): the list self.squad is extended in
\* place, the budgets are reduced by the cost of the entries of the local
\* list players, to which nothing is ever added, and players is returned.
get_cheap_players(st, d, call) ==
    LET rows == cheap_rows(d, 1)
        players == <<>>
        extended == st.squad \o
                        [k \in DOMAIN rows |->
                            NewPlayer(d[rows[k]], Site(call, "_get_cheap_players", rows[k], 0))]
    IN  [st |-> [st EXCEPT !.squad = extended,
                           !.budget = st.budget - SumPlayerCost(players)],
         players |-> players]

\* Efficientv2.check_position_budget
check_position_budget(breakdown, player) ==
    player.cost * Unit <= breakdown[player.position]

CountAt(sq, position) == Cardinality({k \in DOMAIN sq : sq[k].position = position})

\* redistribute_budget with the share added to every category, the full
\* ones too.
redistribute_budget_to_all(sq, breakdown) ==
    LET full == {p \in Positions :
                    CountAt(sq, p) = squad_numbers[p] /\ breakdown[p] > 0}
        wiggle_room == SumAmounts(breakdown, full)
        num_to_redistribute == 4 - Cardinality(full)
        emptied == [p \in Positions |-> IF p \in full THEN 0 ELSE breakdown[p]]
    IN  IF wiggle_room > 0
        THEN [p \in Positions |-> emptied[p] + (wiggle_room \div num_to_redistribute)]
        ELSE emptied

\* Efficientv2.redistribute_budget: the budget_breakdown it leaves.
redistribute_budget(sq, breakdown) ==
    LET full == {p \in Positions :
                    CountAt(sq, p) = squad_numbers[p] /\ breakdown[p] > 0}
        wiggle_room == SumAmounts(breakdown, full)
        num_to_redistribute == 4 - Cardinality(full)
        emptied == [p \in Positions |-> IF p \in full THEN 0 ELSE breakdown[p]]
    IN  IF wiggle_room > 0
        THEN [p \in Positions |->
                 IF CountAt(sq, p) < squad_numbers[p]
                 THEN emptied[p] + (wiggle_room \div num_to_redistribute)
                 ELSE emptied[p]]
        ELSE emptied

\* forward_row without the test of the sub-budget.
forward_row_any_cost(st, breakdown, d, i, call) ==
    LET player == NewPlayer(d[i], Site(call, "forward_pass", i, 0))
    IN  IF st.budget <= 0
        THEN [st EXCEPT !.breakdown = breakdown, !.exc = "ValueError"]
        ELSE IF /\ squad_position_rule(st.squad, player)
                /\ player_team_squad_rule(st.squad, player)
        THEN [squad |-> Append(st.squad, player),
              team |-> Append(st.team, player),
              budget |-> st.budget - player.cost,
              breakdown |-> [breakdown EXCEPT ![player.position] = @ - player.cost * Unit],
              exc |-> "none"]
        ELSE [st EXCEPT !.breakdown = breakdown]

\* One iteration of the loop of forward_pass that does not break: for row i,
\* with the budget_breakdown that redistribute_budget has left.
forward_row(st, breakdown, d, i, call) ==
    LET player == NewPlayer(d[i], Site(call, "forward_pass", i, 0))
    IN  IF st.budget <= 0
        THEN [st EXCEPT !.breakdown = breakdown, !.exc = "ValueError"]
        ELSE IF /\ squad_position_rule(st.squad, player)
                /\ check_position_budget(breakdown, player)
                /\ player_team_squad_rule(st.squad, player)
        THEN [squad |-> Append(st.squad, player),
              team |-> Append(st.team, player),
              budget |-> st.budget - player.cost,
              breakdown |-> [breakdown EXCEPT ![player.position] = @ - player.cost * Unit],
              exc |-> "none"]
        ELSE [st EXCEPT !.breakdown = breakdown]

RECURSIVE forward_rows(_, _, _, _, _)
\* The loop of forward_pass from row number k of the sorted rows on.
forward_rows(st, d, rows, k, call) ==
    IF k > Len(rows) \/ Len(st.squad) = 15 \/ st.exc # "none" THEN st
    ELSE Bind(redistribute_budget(st.squad, st.breakdown),
              LAMBDA breakdown :
                  Bind(forward_row(st, breakdown, d, rows[k], call),
                       LAMBDA after : forward_rows(after, d, rows, k + 1, call)))

\* Efficientv2.forward_pass: the rows are taken best value first.
forward_pass(st, d, call) ==
    Bind(SortValues(DOMAIN d, LAMBDA i, j : ValueAbove(d, i, j)),
         LAMBDA rows : forward_rows(st, d, rows, 1, call))

\* list.remove(x): the first entry that is == x is removed; ValueError when
\* there is none.
ListRemove(lst, x) ==
    LET at == {k \in DOMAIN lst : lst[k].id = x.id}
    IN  IF at = {} THEN [exc |-> "ValueError", list |-> lst]
        ELSE LET first == CHOOSE k \in at : \A j \in at : k <= j
             IN  [exc |-> "none",
                  list |-> SubSeq(lst, 1, first - 1) \o SubSeq(lst, first + 1, Len(lst))]

\* The replacement of player by new_player in backward_pass.
Replace(st, player, new_player) ==
    LET from_squad == ListRemove(st.squad, player)
        from_team == ListRemove(st.team, player)
    IN  IF from_squad.exc # "none" THEN [st EXCEPT !.exc = from_squad.exc]
        ELSE IF from_team.exc # "none"
        THEN [st EXCEPT !.squad = Append(from_squad.list, new_player),
                        !.exc = from_team.exc]
        ELSE [squad |-> Append(from_squad.list, new_player),
              team |-> Append(from_team.list, new_player),
              budget |-> st.budget + player.cost - new_player.cost,
              breakdown |-> [[st.breakdown EXCEPT
                                 ![player.position] = @ + player.cost * Unit]
                             EXCEPT ![new_player.position] = @ - new_player.cost * Unit],
              exc |-> "none"]

RECURSIVE try_replace(_, _, _, _, _, _)
\* The inner loop of backward_pass over the available rows left, most points
\* first: the first row that fits replaces player and ends the loop.
try_replace(st, d, row, player, available, call) ==
    IF available = <<>> THEN st
    ELSE LET new_player ==
                 NewPlayer(d[Head(available)],
                           Site(call, "backward_pass", row, Head(available)))
         IN  IF /\ squad_position_rule(st.squad, new_player)
                /\ check_position_budget(st.breakdown, new_player)
                /\ player_team_squad_rule(st.squad, new_player)
             THEN Replace(st, player, new_player)
             ELSE try_replace(st, d, row, player, Tail(available), call)

\* One iteration of the outer loop of backward_pass, for row i of the team.
backward_row(st, d, i, call) ==
    LET player == NewPlayer(d[i], Site(call, "backward_pass", i, 0))
        available_players ==
            {j \in DOMAIN d :
                /\ d[j].element_type = player.position
                /\ d[j].now_cost < st.budget + player.cost}
    IN  Bind(SortValues(available_players,
                 LAMBDA a, b : d[a].predicted_points > d[b].predicted_points),
             LAMBDA available : try_replace(st, d, i, player, available, call))

RECURSIVE backward_rows(_, _, _, _, _)
\* The outer loop of backward_pass from row number k of the sorted rows of
\* the team on.
backward_rows(st, d, rows, k, call) ==
    IF k > Len(rows) \/ st.exc # "none" THEN st
    ELSE Bind(backward_row(st, d, rows[k], call),
              LAMBDA after : backward_rows(after, d, rows, k + 1, call))

\* Efficientv2.backward_pass: the rows of the team are taken fewest points
\* first.
backward_pass(st, d, call) ==
    LET only_team == {i \in DOMAIN d :
                         \E k \in DOMAIN st.team : st.team[k].name = d[i].name}
    IN  Bind(SortValues(only_team,
                 LAMBDA i, j : d[i].predicted_points < d[j].predicted_points),
             LAMBDA rows : backward_rows(st, d, rows, 1, call))

\* Efficientv2.optimise(df) on an instance: the instance afterwards and the
\* outcome.  self.squad is bound to the list _get_cheap_players returns.
Efficientv2Optimise(inst, breakdown, d, call) ==
    LET entered == [squad |-> inst.squad, team |-> inst.team, budget |-> inst.budget,
                    breakdown |-> breakdown, exc |-> "none"]
        Initialised(cheap) == [cheap.st EXCEPT !.squad = cheap.players]
        Passes(initialised) ==
            Bind(forward_pass(initialised, d, call),
                 LAMBDA forward :
                     IF forward.exc = "none" THEN backward_pass(forward, d, call)
                     ELSE forward)
    IN  Bind(Initialised(get_cheap_players(entered, d, call)),
             LAMBDA initialised :
                 Bind(Passes(initialised),
                      LAMBDA backward :
                          [inst |-> [squad |-> backward.squad, team |-> backward.team,
                                     budget |-> backward.budget],
                           breakdown |-> backward.breakdown,
                           exc |-> backward.exc,
                           ret |-> IF backward.exc = "none" THEN backward.squad ELSE <<>>,
                           after_init |-> initialised.squad,
                           need |-> 0,
                           unblocked |-> 0]))

-----------------------------------------------------------------------------
\* squad_optimisers.py: Average.

Abs(x) == IF x < 0 THEN 0 - x ELSE x

RECURSIVE SumColumn(_, _)
\* df[column].sum()
SumColumn(d, column) ==
    IF d = <<>> THEN 0 ELSE Head(d)[column] + SumColumn(Tail(d), column)

\* delta_mean of the rows, times the number n of rows:
\* abs(cost - sum / n) * n = abs(n * cost - sum).
DeltaMean(d) ==
    LET sum == SumColumn(d, "now_cost")
    IN  {<<i, Abs(Len(d) * d[i].now_cost - sum)>> : i \in DOMAIN d}

\* The entry of row i in a set of pairs <<row, key>>.
KeyOf(keys, i) == (CHOOSE at \in keys : at[1] = i)[2]

\* average_row with a player admitted whose cost is the whole budget left.
average_row_whole_budget(st, d, i, call) ==
    LET player == NewPlayer(d[i], Site(call, "optimise", i, 0))
    IN  IF /\ squad_position_rule(st.squad, player)
           /\ player_team_squad_rule(st.squad, player)
           /\ st.budget >= player.cost
        THEN [st EXCEPT !.squad = Append(st.squad, player),
                        !.budget = st.budget - player.cost]
        ELSE st

\* One iteration of the loop of Average.optimise, for row i.
average_row(st, d, i, call) ==
    LET player == NewPlayer(d[i], Site(call, "optimise", i, 0))
    IN  IF /\ squad_position_rule(st.squad, player)
           /\ player_team_squad_rule(st.squad, player)
           /\ st.budget > player.cost
        THEN [st EXCEPT !.squad = Append(st.squad, player),
                        !.budget = st.budget - player.cost]
        ELSE st

RECURSIVE average_rows(_, _, _, _, _)
\* The loop of Average.optimise from row number k of the sorted rows on.
average_rows(st, d, rows, k, call) ==
    IF k > Len(rows) THEN st
    ELSE Bind(average_row(st, d, rows[k], call),
              LAMBDA after : average_rows(after, d, rows, k + 1, call))

\* Average.optimise(df) on an instance: the instance afterwards and the
\* outcome.
AverageOptimise(inst, breakdown, d, call) ==
    LET Sorted(delta_mean) ==
            SortValues(DOMAIN d, LAMBDA i, j : KeyOf(delta_mean, i) < KeyOf(delta_mean, j))
    IN  Bind(Bind(DeltaMean(d), Sorted),
             LAMBDA rows :
                 Bind(average_rows(inst, d, rows, 1, call),
                      LAMBDA run :
                          [inst |-> run,
                           breakdown |-> breakdown,
                           exc |-> "none",
                           ret |-> run.squad,
                           after_init |-> <<>>,
                           need |-> 0,
                           unblocked |-> 0]))

-----------------------------------------------------------------------------
\* The pools the heuristic optimisers are run on.  Rows 1..15 fill the quotas
\* and cost 995; the first c of the five Defenders belong to club 8, and so
\* does the Forward of best value when b = 8; row 16 is one more Forward.
HeurRows(c, b) ==
    << Row("S01", 1, 49, 1, 20), Row("S02", 1, 51, 2, 21),
       Row("S03", 2, 58, IF c >= 1 THEN 8 ELSE 3, 30),
       Row("S04", 2, 59, IF c >= 2 THEN 8 ELSE 4, 31),
       Row("S05", 2, 60, IF c >= 3 THEN 8 ELSE 5, 32),
       Row("S06", 2, 61, IF c >= 4 THEN 8 ELSE 6, 33),
       Row("S07", 2, 62, IF c >= 5 THEN 8 ELSE 7, 34),
       Row("S08", 3, 78, 3, 41), Row("S09", 3, 79, 4, 43),
       Row("S10", 3, 80, 5, 45), Row("S11", 3, 81, 6, 47),
       Row("S12", 3, 82, 7, 49),
       Row("S13", 4, 64, 1, 50), Row("S14", 4, 65, 2, 52),
       Row("S15", 4, 66, b, 54), Row("S16", 4, 67, 10, 10) >>

\* No two rows have the same value, forecast or distance from the mean cost,
\* and no two rows of a position the same cost: every sort_values the
\* optimisers make has one result.
TieFree(d) ==
    \A i, j \in DOMAIN d :
        i # j => /\ ValueAbove(d, i, j) \/ ValueAbove(d, j, i)
                 /\ d[i].predicted_points # d[j].predicted_points
                 /\ KeyOf(DeltaMean(d), i) # KeyOf(DeltaMean(d), j)
                 /\ d[i].element_type = d[j].element_type
                        => d[i].now_cost # d[j].now_cost

\* Pools of 12 rows (no Forward), 15 and 16 rows.
HeurSizes == {12, 15, 16}

\* What the second Keeper costs more than 51: with 5 more rows 1..15 cost
\* 1000, with 12 more they cost 1007.
Surcharges == {0, 5, 12}

Dearer(d, x) == [d EXCEPT ![2].now_cost = @ + x]

HeurPools ==
    {d \in {Dearer(SubSeq(HeurRows(c, b), 1, n), x) :
                c \in 0 .. squad_numbers[PosDEF], b \in {8, 9}, n \in HeurSizes,
                x \in Surcharges} :
        TieFree(d)}

HeurClasses == {"Efficient", "Efficientv2", "Average"}

\* The module has been imported: the classes and the default dicts of their
\* parameters exist, no instance does.
HeurInit ==
    /\ opt_df \in HeurPools
    /\ opt_cls \in HeurClasses
    /\ opt_insts = <<>>
    /\ budget_breakdown = DefaultBreakdown
    /\ opt_log = <<>>
    /\ SquadIdle
    /\ MIPIdle
    /\ TeamIdle
    /\ RandomIdle
    /\ PassIdle

\* A call that never returns has been made.
Hung == \E k \in DOMAIN opt_log : opt_log[k].exc = "hang"

CallsOf(op) == Cardinality({k \in DOMAIN opt_log : opt_log[k].op = op})

\* BaseOptimiser.__init__: the attributes of a new instance.
BaseInit == [budget |-> 1000, squad |-> <<>>, team |-> <<>>]

\* Efficient(...), Efficientv2(...) or Average(...) with the default
\* budget_breakdown: self.budget_breakdown is the default dict itself, and
\* Efficientv2.__init__ raises ValueError when its amounts do not sum to
\* self.budget.
NewOptimiser ==
    /\ ~Hung
    /\ CallsOf("__init__") < MaxInstances
    /\ LET raises == /\ opt_cls = "Efficientv2"
                     /\ SumAmounts(budget_breakdown, Positions) # BaseInit.budget * Unit
       IN  /\ opt_insts' = IF raises THEN opt_insts ELSE Append(opt_insts, BaseInit)
           /\ opt_log' = Append(opt_log,
                  Logged("__init__", Len(opt_insts) + 1,
                         IF raises THEN "ValueError" ELSE "none",
                         <<>>, budget_breakdown, <<>>, 0, 0))
    /\ UNCHANGED <<opt_df, opt_cls, budget_breakdown>>
    /\ UNCHANGED <<squadvars, mipvars, teamvars, rndvars, passvars>>

\* optimise(df) of the class in use.
Run(inst, breakdown, d, call) ==
    CASE opt_cls = "Efficient" -> EfficientOptimise(inst, breakdown, d, call)
      [] opt_cls = "Efficientv2" -> Efficientv2Optimise(inst, breakdown, d, call)
      [] opt_cls = "Average" -> AverageOptimise(inst, breakdown, d, call)

\* instance number i .optimise(df)
Optimise(i) ==
    /\ ~Hung
    /\ CallsOf("optimise") < MaxRuns
    /\ i \in DOMAIN opt_insts
    /\ \E run \in {Run(opt_insts[i], budget_breakdown, opt_df, Len(opt_log) + 1)} :
           /\ opt_insts' = [opt_insts EXCEPT ![i] = run.inst]
           /\ budget_breakdown' = run.breakdown
           /\ opt_log' = Append(opt_log,
                  Logged("optimise", i, run.exc, run.ret, run.breakdown,
                         run.after_init, run.need, run.unblocked))
    /\ UNCHANGED <<opt_df, opt_cls>>
    /\ UNCHANGED <<squadvars, mipvars, teamvars, rndvars, passvars>>

HeurNext ==
    \/ NewOptimiser
    \/ \E i \in 1 .. MaxInstances : Optimise(i)

SpecHeur == HeurInit /\ [][HeurNext]_vars

-----------------------------------------------------------------------------
\* squad_optimisers.py: one optimise call of Efficientv2 or Average on a new
\* instance, one loop iteration at a time.

\* The budget_breakdown arguments of Efficientv2(...): the default dict and
\* a dict that gives the Keepers little and the Midfielders much.  Both sum
\* to self.budget.
Breakdowns ==
    {DefaultBreakdown,
     (PosGK :> 100 * Unit) @@ (PosDEF :> 300 * Unit)
        @@ (PosMID :> 400 * Unit) @@ (PosFWD :> 200 * Unit)}

PassPools == HeurPools

PassClasses == {"Efficientv2", "Average"}

\* The number that names the optimise call in the ids of its Players.
PassCall == 1

\* A new instance exists and its optimise(df) has been called.
PassInit ==
    /\ pass_df \in PassPools
    /\ pass_cls \in PassClasses
    /\ \E breakdown \in Breakdowns :
           /\ pass_cls = "Average" => breakdown = DefaultBreakdown
           /\ pass_st = [squad |-> <<>>, team |-> <<>>, budget |-> BaseInit.budget,
                         breakdown |-> breakdown, exc |-> "none"]
    /\ pass_pc = "called"
    /\ pass_rows = <<>>
    /\ pass_k = 0
    /\ SquadIdle
    /\ MIPIdle
    /\ TeamIdle
    /\ RandomIdle
    /\ HeurIdle

\* Efficientv2.optimise up to the head of the loop of forward_pass: self.squad
\* is bound to the list _get_cheap_players returns and the rows are sorted
\* best value first.
Efficientv2Enter ==
    /\ pass_pc = "called"
    /\ pass_cls = "Efficientv2"
    /\ \E cheap \in {get_cheap_players(pass_st, pass_df, PassCall)} :
           pass_st' = [cheap.st EXCEPT !.squad = cheap.players]
    /\ pass_rows' = SortValues(DOMAIN pass_df, LAMBDA i, j : ValueAbove(pass_df, i, j))
    /\ pass_k' = 1
    /\ pass_pc' = "forward"
    /\ UNCHANGED <<pass_df, pass_cls>>
    /\ UNCHANGED <<squadvars, mipvars, teamvars, rndvars, heurvars>>

\* forward_pass, an iteration that does not break, up to the return of
\* redistribute_budget.
ForwardRedistribute ==
    /\ pass_pc = "forward"
    /\ pass_k <= Len(pass_rows)
    /\ Len(pass_st.squad) # 15
    /\ pass_st' = [pass_st EXCEPT
                      !.breakdown = redistribute_budget(pass_st.squad, pass_st.breakdown)]
    /\ pass_pc' = "redistributed"
    /\ UNCHANGED <<pass_df, pass_cls, pass_rows, pass_k>>
    /\ UNCHANGED <<squadvars, mipvars, teamvars, rndvars, heurvars>>

\* forward_pass, the rest of the iteration: the budget check and the row.
ForwardConsider ==
    /\ pass_pc = "redistributed"
    /\ \E after \in {forward_row(pass_st, pass_st.breakdown, pass_df,
                                 pass_rows[pass_k], PassCall)} :
           /\ pass_st' = after
           /\ pass_pc' = IF after.exc = "none" THEN "forward" ELSE "raised"
    /\ pass_k' = pass_k + 1
    /\ UNCHANGED <<pass_df, pass_cls, pass_rows>>
    /\ UNCHANGED <<squadvars, mipvars, teamvars, rndvars, heurvars>>

\* forward_pass ends, by break or with the last row, and backward_pass sorts
\* the rows of the team, fewest points first.
ForwardLeave ==
    /\ pass_pc = "forward"
    /\ pass_k > Len(pass_rows) \/ Len(pass_st.squad) = 15
    /\ LET only_team == {i \in DOMAIN pass_df :
                            \E k \in DOMAIN pass_st.team :
                                pass_st.team[k].name = pass_df[i].name}
       IN  pass_rows' = SortValues(only_team,
                            LAMBDA i, j : pass_df[i].predicted_points
                                              < pass_df[j].predicted_points)
    /\ pass_k' = 1
    /\ pass_pc' = "backward"
    /\ UNCHANGED <<pass_df, pass_cls, pass_st>>
    /\ UNCHANGED <<squadvars, mipvars, teamvars, rndvars, heurvars>>

\* backward_pass, one iteration of the outer loop.
BackwardStep ==
    /\ pass_pc = "backward"
    /\ pass_k <= Len(pass_rows)
    /\ \E after \in {backward_row(pass_st, pass_df, pass_rows[pass_k], PassCall)} :
           /\ pass_st' = after
           /\ pass_pc' = IF after.exc = "none" THEN "backward" ELSE "raised"
    /\ pass_k' = pass_k + 1
    /\ UNCHANGED <<pass_df, pass_cls, pass_rows>>
    /\ UNCHANGED <<squadvars, mipvars, teamvars, rndvars, heurvars>>

\* backward_pass ends and Efficientv2.optimise returns self.squad.
BackwardLeave ==
    /\ pass_pc = "backward"
    /\ pass_k > Len(pass_rows)
    /\ pass_pc' = "returned"
    /\ UNCHANGED <<pass_df, pass_cls, pass_st, pass_rows, pass_k>>
    /\ UNCHANGED <<squadvars, mipvars, teamvars, rndvars, heurvars>>

\* Average.optimise up to the head of its loop: the rows are sorted by their
\* distance from the mean cost.
AverageEnter ==
    /\ pass_pc = "called"
    /\ pass_cls = "Average"
    /\ \E delta_mean \in {DeltaMean(pass_df)} :
           pass_rows' = SortValues(DOMAIN pass_df,
                            LAMBDA i, j : KeyOf(delta_mean, i) < KeyOf(delta_mean, j))
    /\ pass_k' = 1
    /\ pass_pc' = "average"
    /\ UNCHANGED <<pass_df, pass_cls, pass_st>>
    /\ UNCHANGED <<squadvars, mipvars, teamvars, rndvars, heurvars>>

\* Average.optimise, one iteration of the loop.
AverageStep ==
    /\ pass_pc = "average"
    /\ pass_k <= Len(pass_rows)
    /\ pass_st' = average_row(pass_st, pass_df, pass_rows[pass_k], PassCall)
    /\ pass_k' = pass_k + 1
    /\ UNCHANGED <<pass_df, pass_cls, pass_pc, pass_rows>>
    /\ UNCHANGED <<squadvars, mipvars, teamvars, rndvars, heurvars>>

\* The loop is over and Average.optimise returns self.squad.
AverageLeave ==
    /\ pass_pc = "average"
    /\ pass_k > Len(pass_rows)
    /\ pass_pc' = "returned"
    /\ UNCHANGED <<pass_df, pass_cls, pass_st, pass_rows, pass_k>>
    /\ UNCHANGED <<squadvars, mipvars, teamvars, rndvars, heurvars>>

PassNext ==
    \/ Efficientv2Enter
    \/ ForwardRedistribute
    \/ ForwardConsider
    \/ ForwardLeave
    \/ BackwardStep
    \/ BackwardLeave
    \/ AverageEnter
    \/ AverageStep
    \/ AverageLeave

SpecPass == PassInit /\ [][PassNext]_vars

-----------------------------------------------------------------------------
\* The roster rules as the specification states them.
Clubs == {Heap[o].team : o \in DOMAIN Heap}

SameName(a, b) == Heap[a].name = Heap[b].name

QuotaOf(p) ==
    IF p = PosGK THEN 2 ELSE IF p = PosFWD THEN 3 ELSE 5

ValidRoster(lst) ==
    /\ Len(lst) = 15
    /\ \A p \in Positions : Cardinality({i \in DOMAIN lst : Heap[lst[i]].position = p}) = QuotaOf(p)
    /\ SumCost(lst) <= 1000
    /\ \A c \in Clubs : Cardinality({i \in DOMAIN lst : Heap[lst[i]].team = c}) <= 3

ValidTeamShape(lst) ==
    /\ Len(lst) = 11
    /\ Cardinality({i \in DOMAIN lst : Heap[lst[i]].position = PosGK}) = 1
    /\ Cardinality({i \in DOMAIN lst : Heap[lst[i]].position = PosDEF}) >= 3
    /\ Cardinality({i \in DOMAIN lst : Heap[lst[i]].position = PosFWD}) >= 1

RosterInvariants ==
    /\ ValidRoster(squad)
    /\ ValidTeamShape(team)
    /\ \A i \in DOMAIN team : \E j \in DOMAIN squad : team[i] = squad[j]
    /\ \E i \in DOMAIN team : team[i] = captain
    /\ \E i \in DOMAIN team : team[i] = vice_captain
    /\ ~SameName(captain, vice_captain)

AllPlayers(lst) == \A i \in DOMAIN lst : IsPlayer(lst[i])

FactoryOps == {"from_player_list", "from_pandas_df"}

\* C1: every Squad that the constructor or a factory returns has a squad of
\* 15 with counts 2/5/5/3, cost <= 1000 and at most 3 per club, a team of 11
\* squad members with 1 keeper, >= 3 defenders and >= 1 forward, and a captain
\* and a vice captain who are team members with different names.
C1_ConstructedSquadIsValid == constructed => RosterInvariants

C1_Witness ==
    /\ constructed
    /\ outcome.op = "__init__"
    /\ SumCost(squad) = 1000
    /\ team # DefaultTeam(squad)

\* C2: the squad setter accepts a list of Players if and only if the list has
\* 15 entries, counts 2/5/5/3, cost <= 1000 and at most 3 entries per club.
C2_SquadSetterAcceptsIff ==
    (outcome.op = "squad" /\ outcome.arg.list /\ AllPlayers(outcome.arg.items))
        => ((outcome.exc = "none" /\ squad = outcome.arg.items)
                <=> ValidRoster(outcome.arg.items))

C2_Witness ==
    /\ outcome.op = "squad"
    /\ outcome.exc = "SquadError"
    /\ outcome.arg.list /\ AllPlayers(outcome.arg.items)
    /\ Len(outcome.arg.items) = 15
    /\ SumCost(outcome.arg.items) = 1001

\* C3: an assignment to a constructed Squad that does not return raises the
\* SquadError and leaves squad, team, captain and vice_captain as they were.
C3_RejectedAssignmentKeepsFields ==
    [][(CanAssign /\ outcome'.exc # "none")
           => (outcome'.exc = "SquadError" /\ fields' = fields)]_vars

C3_Witness ==
    /\ constructed
    /\ outcome.op = "team"
    /\ outcome.exc = "SquadError"
    /\ outcome.arg.list
    /\ outcome.arg.items # team

\* C4: after any sequence of assignments the captain and the vice captain of
\* a constructed Squad have different names.
C4_CaptainDiffersFromViceCaptain ==
    constructed => ~SameName(captain, vice_captain)

\* C5: after any sequence of assignments every team member is a member of
\* the current squad, and captain and vice captain are members of the current
\* team (membership taken by name, the weakest reading).
C5_TeamWithinSquad ==
    constructed =>
        /\ \A i \in DOMAIN team : \E j \in DOMAIN squad : SameName(team[i], squad[j])
        /\ \E i \in DOMAIN team : SameName(team[i], captain)
        /\ \E i \in DOMAIN team : SameName(team[i], vice_captain)

\* C6: a factory called with a list of Players returns a Squad that satisfies
\* the roster invariants or raises the SquadError, and nothing else.
C6_FactoryReturnsOrRosterError ==
    (outcome.op \in FactoryOps /\ AllPlayers(outcome.arg.items))
        => \/ outcome.exc = "none" /\ constructed /\ RosterInvariants
           \/ outcome.exc = "SquadError"

\* The entries of lst at position p, the first n of them, in list order.
FirstOf(lst, p, n) ==
    LET at == {i \in DOMAIN lst : Heap[lst[i]].position = p}
        first == {i \in at : Cardinality({j \in at : j < i}) < n}
    IN  [k \in 1 .. Cardinality(first) |->
            lst[CHOOSE i \in first : Cardinality({j \in first : j < i}) = k - 1]]

DistinctNames(lst) ==
    \A i, j \in DOMAIN lst : i # j => ~SameName(lst[i], lst[j])

\* C7: for a valid 15-player list with pairwise distinct names a factory
\* returns a Squad whose team is the first keeper, the first 4 defenders, the
\* first 4 midfielders and the first 2 forwards in list order, whose captain
\* is the first and whose vice captain is the second team member.
C7_DefaultTeamAndCaptaincy ==
    (/\ outcome.op \in FactoryOps
     /\ AllPlayers(outcome.arg.items)
     /\ ValidRoster(outcome.arg.items)
     /\ DistinctNames(outcome.arg.items))
        => /\ outcome.exc = "none"
           /\ constructed
           /\ squad = outcome.arg.items
           /\ team = FirstOf(squad, PosGK, 1) \o FirstOf(squad, PosDEF, 4)
                        \o FirstOf(squad, PosMID, 4) \o FirstOf(squad, PosFWD, 2)
           /\ captain = team[1]
           /\ vice_captain = team[2]

C7_Witness ==
    /\ constructed
    /\ outcome.op = "from_player_list"
    /\ squad = Reverse(Base)
    /\ captain = 2

\* The conditions of the squad setter in the order the specification gives.
Violates(k, arg) ==
    LET typed == arg.list /\ AllPlayers(arg.items)
    IN  CASE k = 1 -> ~typed
          [] k = 2 -> typed /\ Len(arg.items) # 15
          [] k = 3 -> typed /\ \E p \in Positions :
                          Cardinality({i \in DOMAIN arg.items :
                              Heap[arg.items[i]].position = p}) # QuotaOf(p)
          [] k = 4 -> typed /\ SumCost(arg.items) > 1000
          [] k = 5 -> typed /\ \E c \in Clubs :
                          Cardinality({i \in DOMAIN arg.items :
                              Heap[arg.items[i]].team = c}) > 3

Reports ==
    << "Squad must be a list of players", "Squad must contain 15 players",
       "Squad is not valid", "Squad is too expensive",
       "Squad has too many players from the same team" >>

\* C8: a rejected squad assignment reports the first violated condition in
\* the order type, size, category counts, cost, club cap.
C8_FirstViolatedConditionReported ==
    (outcome.op = "squad" /\ outcome.exc = "SquadError")
        => \E k \in DOMAIN Reports :
               /\ outcome.msg = Reports[k]
               /\ Violates(k, outcome.arg)
               /\ \A j \in 1 .. (k - 1) : ~Violates(j, outcome.arg)

C8_Witness ==
    /\ outcome.op = "squad"
    /\ outcome.msg = "Squad is not valid"
    /\ Violates(4, outcome.arg)

\* C9: the team setter accepts a team of valid size and category floors whose
\* every member has the name of some squad member, and the captain setter
\* accepts a Player who has the name of a team member.
C9_MembershipByName ==
    /\ (/\ outcome.op = "team"
        /\ outcome.arg.list /\ AllPlayers(outcome.arg.items)
        /\ ValidTeamShape(outcome.arg.items)
        /\ \A i \in DOMAIN outcome.arg.items :
               \E j \in DOMAIN squad : SameName(outcome.arg.items[i], squad[j]))
           => outcome.exc = "none"
    /\ (/\ outcome.op = "captain"
        /\ IsPlayer(outcome.arg.items[1])
        /\ \E i \in DOMAIN team : SameName(team[i], outcome.arg.items[1]))
           => outcome.exc = "none"

\* The clubs that occur in the pool.
PoolClubs == {df[i].team : i \in DOMAIN df}

\* The selections the specification allows: budget, quotas, and at most 3
\* of every club of the pool.
Allowed(d) ==
    {sel \in WithCounts(d, [p \in Positions |-> QuotaOf(p)]) :
        /\ Cardinality(sel) = 15
        /\ SumOver(d, sel, "now_cost") <= 1000
        /\ \A i \in sel : Cardinality({j \in sel : d[j].team = d[i].team}) <= 3}

\* C10: the list MIPSquad.optimise returns costs <= 1000, holds 2/5/5/3
\* players per category and at most 3 players of every club of the pool; and
\* it is the allowed selection when the pool allows exactly one.
C10_ExactSelectionIsAllowed ==
    (mip_calls >= 1 /\ mip_exc = "none")
        => /\ SumPlayerCost(mip_squad) <= 1000
           /\ \A p \in Positions :
                  Cardinality({k \in DOMAIN mip_squad : mip_squad[k].position = p}) = QuotaOf(p)
           /\ \A c \in PoolClubs :
                  Cardinality({k \in DOMAIN mip_squad : mip_squad[k].team = c}) <= 3
           /\ \A sel \in Allowed(df) :
                  Allowed(df) = {sel} => mip_squad = Appended(df, sel)

\* C11: when the pool admits no feasible selection (the quotas cannot be
\* filled within the budget and the club cap), MIPSquad.optimise fails with
\* the OptimiserError and leaves no partial squad behind.
C11_InfeasibleRaisesOptimiserError ==
    (mip_calls >= 1 /\ Feasible(df) = {})
        => (mip_exc = "OptimiserError" /\ mip_squad = <<>>)

\* The teams the specification allows for a squad table: 11 rows with
\* exactly 1 Keeper, at least 3 Defenders and at least 1 Forward.
TeamAllowed(d) ==
    {sel \in SUBSET (DOMAIN d) :
        /\ Cardinality(sel) = 11
        /\ Cardinality({i \in sel : d[i].element_type = PosGK}) = 1
        /\ Cardinality({i \in sel : d[i].element_type = PosDEF}) >= 3
        /\ Cardinality({i \in sel : d[i].element_type = PosFWD}) >= 1}

\* C12: for a squad table that fills the squad quotas the first call of
\* MIPTeam.optimise returns 11 of its players, 1 Keeper, at least 3 Defenders
\* and at least 1 Forward, with maximal total forecast among such teams.
C12_TeamOfElevenIsOptimal ==
    team_calls = 1
        => /\ team_exc = "none"
           /\ \E sel \in TeamAllowed(squad_df) :
                  /\ mip_team = Appended(squad_df, sel)
                  /\ \A other \in TeamAllowed(squad_df) :
                         SumOver(squad_df, other, "predicted_points")
                             <= SumOver(squad_df, sel, "predicted_points")

\* C13: every list Random.optimise returns has 15 entries, 2/5/5/3 per
\* category, total cost <= 1000 and at most 3 entries of any club.
C13_RandomSquadIsValid ==
    rnd_pc = "returned"
        => /\ Len(rnd_squad) = 15
           /\ \A p \in Positions :
                  Cardinality({k \in DOMAIN rnd_squad : rnd_squad[k].position = p}) = QuotaOf(p)
           /\ SumPlayerCost(rnd_squad) <= 1000
           /\ \A k \in DOMAIN rnd_squad :
                  Cardinality({j \in DOMAIN rnd_squad :
                      rnd_squad[j].team = rnd_squad[k].team}) <= 3

\* A returned squad with 3 entries of the club that has 4 rows in the pool,
\* one of them drawn and refused.
C13_Witness ==
    /\ rnd_pc = "returned"
    /\ Cardinality({k \in DOMAIN rnd_squad : rnd_squad[k].team = 3}) = 3
    /\ \E i \in DOMAIN rnd_df :
           /\ rnd_df[i].team = 3
           /\ \A k \in DOMAIN rnd_squad : rnd_squad[k].name # rnd_df[i].name
    /\ SumPlayerCost(rnd_squad) >= 950

\* No row of the pool can be appended any more: since the squad only grows
\* and the budget only shrinks, no 15 acceptances can be reached.
RandomStuck ==
    /\ rnd_pc = "loop"
    /\ Len(rnd_squad) < 15
    /\ \A i \in DOMAIN rnd_df :
           ~RandomAccepts(rnd_squad, rnd_budget, FromPandasRow(rnd_df[i]))

\* C14: once no further player of the pool can be accepted and the squad is
\* short of 15, Random.optimise eventually stops drawing (it fails with the
\* optimisation-infeasible error).
C14_RandomStopsWhenStuck == RandomStuck ~> (rnd_pc # "loop")

\* The optimise calls made so far, as positions in the log.
Runs == {k \in DOMAIN opt_log : opt_log[k].op = "optimise"}

\* C15: a second run of optimise on the same pool, on the same instance or on
\* another instance with the default configuration, returns the squad the
\* first run returned.
C15_SecondRunReturnsSameSquad ==
    \A a, b \in Runs :
        (a < b /\ opt_log[a].exc = "none")
            => /\ opt_log[b].exc = "none"
               /\ Names(opt_log[b].ret) = Names(opt_log[a].ret)

\* C16: an optimise call leaves budget, squad, team and sub-budgets of every
\* other instance as they were, and every construction with the default
\* configuration succeeds and starts with sub-budgets of 250 each.
C16_InstancesShareNoState ==
    [][LET call == opt_log'[Len(opt_log')]
       IN  /\ call.op = "optimise"
               => \A j \in DOMAIN opt_insts :
                      j # call.inst => /\ opt_insts'[j] = opt_insts[j]
                                       /\ budget_breakdown' = budget_breakdown
           /\ call.op = "__init__"
               => /\ call.exc = "none"
                  /\ call.breakdown = [p \in Positions |-> 250 * Unit]]_vars

\* C17: Average.optimise and Efficientv2.optimise return no list of fewer
\* than 15 players.
C17_HeuristicsReturnNoShortSquad ==
    opt_cls \in {"Average", "Efficientv2"}
        => \A k \in Runs : opt_log[k].exc = "none" => Len(opt_log[k].ret) >= 15

\* C18: a list returned by Efficient.optimise holds at most 3 players of
\* any club.
C18_EfficientKeepsClubCap ==
    opt_cls = "Efficient"
        => \A k \in Runs :
               opt_log[k].exc = "none"
                   => \A m \in DOMAIN opt_log[k].ret :
                          Cardinality({j \in DOMAIN opt_log[k].ret :
                              opt_log[k].ret[j].team = opt_log[k].ret[m].team}) <= 3

\* C19: Efficient.optimise returns unless a category has fewer candidates
\* that the club cap admits than it still needs: a candidate that the cap
\* blocks does not stop the fill.
C19_EfficientPassesOverBlocked ==
    opt_cls = "Efficient"
        => \A k \in Runs :
               \/ opt_log[k].exc = "none" /\ Len(opt_log[k].ret) >= 15
               \/ opt_log[k].unblocked < opt_log[k].need

\* The bench the specification describes for the default formation: of each
\* category the (quota - formation count) cheapest rows of the pool.
Bench(d) ==
    {i \in DOMAIN d :
        Cardinality({j \in DOMAIN d :
            /\ d[j].element_type = d[i].element_type
            /\ d[j].now_cost < d[i].now_cost})
          < QuotaOf(d[i].element_type) - formation[d[i].element_type]}

\* C20: after the initialisation step of Efficientv2.optimise the squad holds
\* exactly the bench, and a returned squad contains the bench.
C20_BenchIsInitialisedAndKept ==
    opt_cls = "Efficientv2"
        => \A k \in Runs :
               LET bench == {opt_df[i].name : i \in Bench(opt_df)}
                   held == {opt_log[k].after_init[j].name :
                               j \in DOMAIN opt_log[k].after_init}
                   returned == {opt_log[k].ret[j].name : j \in DOMAIN opt_log[k].ret}
               IN  /\ held = bench
                   /\ Len(opt_log[k].after_init) = Cardinality(bench)
                   /\ opt_log[k].exc = "none" => bench \subseteq returned

\* C25: the 15 entries of the list Random.optimise returns are 15 different
\* candidates of the pool.
C25_RandomSquadHasNoDuplicate ==
    rnd_pc = "returned"
        => \A j, k \in DOMAIN rnd_squad :
               j # k => rnd_squad[j].name # rnd_squad[k].name

\* The categories whose quota the squad fills.
Filled(sq) == {p \in Positions : CountAt(sq, p) = QuotaOf(p)}

\* C21: a redistribution step of the forward pass of Efficientv2 pools the
\* sub-budgets left in the filled categories, adds to every open category the
\* pool divided by the number of open categories (4 minus the number of
\* filled ones, those zeroed at an earlier step included), and so moves the
\* whole pool to the open categories.
C21_RedistributionSharesWholePool ==
    [][(pass_pc = "forward" /\ pass_pc' = "redistributed")
        => LET before == pass_st.breakdown
               after == pass_st'.breakdown
               filled == Filled(pass_st.squad)
               open == Positions \ filled
               pool == SumAmounts(before, {p \in filled : before[p] > 0})
           IN  /\ \A p \in open :
                      after[p] * Cardinality(open) = before[p] * Cardinality(open) + pool
               /\ SumAmounts(after, open) = SumAmounts(before, open) + pool]_vars

\* The names of the players of a list.
NameSet(players) == {players[k].name : k \in DOMAIN players}

\* The rows that may replace the team member of row i in the backward pass:
\* another row of the same category, not yet in the squad, that costs less
\* than the remaining budget plus the member's cost, finds an open slot once
\* the member is taken out, costs no more than the sub-budget of the
\* category and has fewer than 3 players of its club in the squad.
Replacements(st, d, i) ==
    LET others == {k \in DOMAIN st.squad : st.squad[k].name # d[i].name}
    IN  {j \in DOMAIN d \ {i} :
            /\ d[j].element_type = d[i].element_type
            /\ d[j].name \notin NameSet(st.squad)
            /\ d[j].now_cost < st.budget + d[i].now_cost
            /\ Cardinality({k \in others : st.squad[k].position = d[j].element_type})
                   < QuotaOf(d[j].element_type)
            /\ d[j].now_cost * Unit <= st.breakdown[d[j].element_type]
            /\ Cardinality({k \in DOMAIN st.squad : st.squad[k].team = d[j].team}) < 3}

\* C22: in the backward pass of Efficientv2, when the member at hand has
\* replacements, the one with the highest forecast takes its place in squad
\* and team, and the budget and the sub-budget of the category get the
\* member's cost back and pay the newcomer's.
C22_BackwardPassSwapsInBest ==
    [][(pass_pc = "backward" /\ pass_k' = pass_k + 1
            /\ Replacements(pass_st, pass_df, pass_rows[pass_k]) # {})
        => LET i == pass_rows[pass_k]
               found == Replacements(pass_st, pass_df, i)
               best == CHOOSE j \in found :
                           \A o \in found :
                               pass_df[o].predicted_points <= pass_df[j].predicted_points
               position == pass_df[i].element_type
               paid == pass_df[best].now_cost - pass_df[i].now_cost
           IN  /\ pass_st'.exc = "none"
               /\ NameSet(pass_st'.squad)
                      = (NameSet(pass_st.squad) \ {pass_df[i].name}) \cup {pass_df[best].name}
               /\ NameSet(pass_st'.team)
                      = (NameSet(pass_st.team) \ {pass_df[i].name}) \cup {pass_df[best].name}
               /\ pass_st'.budget = pass_st.budget - paid
               /\ pass_st'.breakdown
                      = [pass_st.breakdown EXCEPT ![position] = @ - paid * Unit]]_vars

\* A squad in progress keeps within the quotas, the club cap and the budget.
WithinLimits(sq) ==
    /\ \A p \in Positions : CountAt(sq, p) <= QuotaOf(p)
    /\ \A k \in DOMAIN sq :
           Cardinality({j \in DOMAIN sq : sq[j].team = sq[k].team}) <= 3
    /\ SumPlayerCost(sq) <= 1000

\* C23: the forward pass of Efficientv2 adds the row at hand to squad and
\* team only if its category has an open slot, its cost is at most the
\* sub-budget of its category and its club has fewer than 3 players in the
\* squad; it then takes the cost off the budget and off that sub-budget; and
\* after every step the squad is within quotas, club cap and total cost 1000.
C23_ForwardPassAcceptsWithinLimits ==
    [][(pass_cls = "Efficientv2" /\ pass_pc = "redistributed")
        => LET row == pass_df[pass_rows[pass_k]]
               position == row.element_type
               old == pass_st
               new == pass_st'
           IN  /\ new.squad # old.squad
                   => /\ CountAt(old.squad, position) < QuotaOf(position)
                      /\ row.now_cost * Unit <= old.breakdown[position]
                      /\ Cardinality({k \in DOMAIN old.squad :
                                         old.squad[k].team = row.team}) < 3
                      /\ Names(new.squad) = Append(Names(old.squad), row.name)
                      /\ Names(new.team) = Append(Names(old.team), row.name)
                      /\ new.budget = old.budget - row.now_cost
                      /\ new.breakdown
                             = [old.breakdown EXCEPT ![position] = @ - row.now_cost * Unit]
               /\ new.squad = old.squad
                   => /\ new.team = old.team
                      /\ new.budget = old.budget
                      /\ new.breakdown = old.breakdown
               /\ WithinLimits(new.squad)]_vars

\* The forward pass has filled the squad: 15 players that cost 995.
C23_Witness ==
    /\ pass_cls = "Efficientv2"
    /\ pass_pc = "forward"
    /\ Len(pass_st.squad) = 15
    /\ Len(pass_st.team) = 15
    /\ SumPlayerCost(pass_st.squad) = 995
    /\ pass_st.budget = 5

\* The distance of the cost of row i from the mean cost of the pool, times
\* the number of rows.
FromMean(d, i) == Abs(Len(d) * d[i].now_cost - SumColumn(d, "now_cost"))

C27_EfficientSquadWithinBudget ==
    opt_cls = "Efficient"
        => \A k \in Runs :
               (opt_log[k].exc = "none" /\ Len(opt_log[k].ret) = 15)
                   => SumPlayerCost(opt_log[k].ret) <= 1000

====
